---- MODULE Spec2Model ----
(***************************************************************************)
(* Model of django_facebook/middleware.py: the request handlers            *)
(* FacebookLoginMiddleware, FacebookLogOutMiddleware,                      *)
(* FacebookHelperMiddleware, FacebookMiddleware and the three debug        *)
(* handlers, acting on one client's request and session.                   *)
(*                                                                         *)
(* The helpers imported from django_facebook.auth and                      *)
(* django_facebook.utils (authenticate's backend, login,                   *)
(* get_fb_cookie_data, get_access_token) are not part of middleware.py;    *)
(* they are modelled from the specification's description of them.         *)
(***************************************************************************)
EXTENDS Naturals, Sequences, FiniteSets, TLC

\* Number of distinct external user ids the model distinguishes.
NumUids == 2

Uids == {ToString(i) : i \in 1..NumUids}

\* Python's None, for a string-valued field.
None == "None"

\* ---------------------------------------------------------------- settings
FACEBOOK_APP_ID == "app"
FACEBOOK_DEBUG_SIGNEDREQ == [sig |-> "good", user_id |-> "1"]
FACEBOOK_DEBUG_COOKIE == [sig |-> "good", user_id |-> "2"]
FACEBOOK_DEBUG_UID == "1"
FACEBOOK_DEBUG_TOKEN == "debugtoken"

\* The value BACKEND_SESSION_KEY is compared with, and another backend's path.
FacebookModelBackend == "django_facebook.auth.FacebookModelBackend"
ModelBackend == "django.contrib.auth.backends.ModelBackend"

\* ---------------------------------------------------------------- data
\* A signed payload as it travels in a cookie or in POST: absent, or signed
\* for a user id with a good or a forged signature.
NoPayload == [sig |-> "absent", user_id |-> None]
Payloads == {NoPayload} \cup [sig : {"good", "forged"}, user_id : Uids]

\* The cookie the debug handler writes, and the cookie the logout handler's
\* documentation names.
DebugCookieName == "fbs_" \o FACEBOOK_APP_ID
SignedCookieName == "fbsr_" \o FACEBOOK_APP_ID
CookieNames == {DebugCookieName, SignedCookieName}

\* What a browser may send in the fbs_ cookie: nothing, a stale value, or
\* the very value the debug handler writes.
LegacyCookies ==
    {NoPayload, [sig |-> "forged", user_id |-> "1"], FACEBOOK_DEBUG_COOKIE}
CookieJars ==
    {c \in [CookieNames -> Payloads] : c[DebugCookieName] \in LegacyCookies}

\* request.user: AnonymousUser, or a User with a username.
AnonymousUser == [username |-> "", authenticated |-> FALSE]
User(name) == [username |-> name, authenticated |-> TRUE]
\* Placeholder held in the record when the request has no user attribute.
NoUserAttr == [username |-> None, authenticated |-> FALSE]

\* request.facebook: not set, or a FacebookAccessor.
NoAccessor == [uid |-> None, access_token |-> None, set |-> FALSE]

\* The session store's content: the logged-in user and BACKEND_SESSION_KEY.
EmptySession == [user |-> AnonymousUser, backend |-> None]
OtherNames == Uids \cup {"admin"}
Sessions ==
    {EmptySession}
    \cup {[user |-> User(u), backend |-> FacebookModelBackend] : u \in Uids}
    \cup {[user |-> User(n), backend |-> ModelBackend] : n \in OtherNames}

VARIABLES
    request,    \* the request being processed
    session,    \* the client's session (persists across requests)
    err,        \* the error the last handler raised, or "none"
    op,         \* the last handler that ran on the request, or "new"
    pre         \* request and session as they were before that handler

vars == <<request, session, err, op, pre>>

\* ---------------------------------------------------------------- helpers
is_anonymous(user) == ~user.authenticated
is_authenticated(user) == user.authenticated

\* Decoding of a signed payload: the assertion it carries, or nothing when
\* it is absent or its signature does not verify.
parse_signed_request(p) ==
    IF p.sig = "good"
    THEN [user_id |-> p.user_id, oauth_token |-> "token-" \o p.user_id]
    ELSE [user_id |-> None, oauth_token |-> None]

\* django_facebook.utils.get_fb_cookie_data: the cookie-derived assertion.
get_fb_cookie_data(req) == parse_signed_request(req.COOKIES[SignedCookieName])

\* The assertion extracted for authentication: from the cookie or from the
\* POST field signed_request; `first` is the place looked at first.
get_facebook_user(req, first) ==
    LET c == get_fb_cookie_data(req)
        p == parse_signed_request(req.POST)
    IN  IF first = "cookie"
        THEN (IF c.user_id # None THEN c ELSE p)
        ELSE (IF p.user_id # None THEN p ELSE c)

\* django.contrib.auth.authenticate(request=request): only the facebook
\* backend accepts these credentials; the user it returns is named by the
\* external user id. AnonymousUser stands for a result of None.
authenticate(req, first) ==
    LET fb == get_facebook_user(req, first)
    IN  IF fb.user_id # None THEN User(fb.user_id) ELSE AnonymousUser

\* django_facebook.auth.login: records the user and the backend that
\* authenticated it in the session, and sets request.user.
login(req, ses, user) ==
    [request |-> [req EXCEPT !.user = user],
     session |-> [user |-> user, backend |-> FacebookModelBackend],
     err |-> "none"]

\* django.contrib.auth.logout: flushes the session, request.user becomes
\* AnonymousUser.
logout(req, ses) ==
    [request |-> [req EXCEPT !.user = AnonymousUser],
     session |-> EmptySession,
     err |-> "none"]

\* django_facebook.utils.get_access_token: the credential resolved from the
\* request, None when there is none.
get_access_token(req) == get_fb_cookie_data(req).oauth_token

Ok(req, ses) == [request |-> req, session |-> ses, err |-> "none"]
Raise(req, ses, e) == [request |-> req, session |-> ses, err |-> e]

\* ---------------------------------------------------------------- handlers
FacebookAccessor(req) ==
    [uid |-> req.user.username,
     access_token |-> get_access_token(req),
     set |-> TRUE]

\* Variant: the hasattr(request, 'user') check is missing, so the first use
\* of request.user fails.
FacebookLoginMiddleware_NoUserCheck(req, ses, first) ==
    IF ~req.hasUser
    THEN Raise(req, ses, "AttributeError")
    ELSE IF is_anonymous(req.user)
         THEN LET user == authenticate(req, first)
              IN  IF user # AnonymousUser
                  THEN login(req, ses, user)
                  ELSE Ok(req, ses)
         ELSE Ok(req, ses)

\* Variant: the is_anonymous() guard is inverted.
FacebookLoginMiddleware_InvertedGuard(req, ses, first) ==
    IF ~req.hasUser
    THEN Raise(req, ses, "ImproperlyConfigured")
    ELSE IF ~is_anonymous(req.user)
         THEN LET user == authenticate(req, first)
              IN  IF user # AnonymousUser
                  THEN login(req, ses, user)
                  ELSE Ok(req, ses)
         ELSE Ok(req, ses)

FacebookLoginMiddleware(req, ses, first) ==
    IF ~req.hasUser
    THEN Raise(req, ses, "ImproperlyConfigured")
    ELSE IF is_anonymous(req.user)
         THEN LET user == authenticate(req, first)
              IN  IF user # AnonymousUser
                  THEN login(req, ses, user)
                  ELSE Ok(req, ses)
         ELSE Ok(req, ses)

\* Variant: an absent cookie is not taken for a mismatch.
FacebookLogOutMiddleware_KeepsWithoutCookie(req, ses) ==
    IF ~req.hasUser
    THEN Raise(req, ses, "ImproperlyConfigured")
    ELSE IF is_authenticated(req.user) /\ ses.backend = FacebookModelBackend
         THEN LET cookie_data == get_fb_cookie_data(req)
              IN  IF cookie_data.user_id # None
                     /\ ~(cookie_data.user_id = req.user.username)
                  THEN logout(req, ses)
                  ELSE Ok(req, ses)
         ELSE Ok(req, ses)

\* Variant: the comparison with BACKEND_SESSION_KEY is missing.
FacebookLogOutMiddleware_AnyBackend(req, ses) ==
    IF ~req.hasUser
    THEN Raise(req, ses, "ImproperlyConfigured")
    ELSE IF is_authenticated(req.user)
         THEN LET cookie_data == get_fb_cookie_data(req)
              IN  IF ~(cookie_data.user_id = req.user.username)
                  THEN logout(req, ses)
                  ELSE Ok(req, ses)
         ELSE Ok(req, ses)

FacebookLogOutMiddleware(req, ses) ==
    IF ~req.hasUser
    THEN Raise(req, ses, "ImproperlyConfigured")
    ELSE IF is_authenticated(req.user) /\ ses.backend = FacebookModelBackend
         THEN LET cookie_data == get_fb_cookie_data(req)
              IN  IF ~(cookie_data.user_id = req.user.username)
                  THEN logout(req, ses)
                  ELSE Ok(req, ses)
         ELSE Ok(req, ses)

\* Variant: the comparison with BACKEND_SESSION_KEY is missing.
FacebookHelperMiddleware_AnyBackend(req, ses) ==
    IF ~req.hasUser
    THEN Raise(req, ses, "AttributeError")
    ELSE IF is_authenticated(req.user)
         THEN Ok([req EXCEPT !.facebook = FacebookAccessor(req)], ses)
         ELSE Ok(req, ses)

\* Variant: a credential of None is refused instead of handed to GraphAPI.
FacebookHelperMiddleware_RefusesNoToken(req, ses) ==
    IF ~req.hasUser
    THEN Raise(req, ses, "AttributeError")
    ELSE IF is_authenticated(req.user)
         THEN IF ses.backend = FacebookModelBackend
              THEN IF get_access_token(req) = None
                   THEN Raise(req, ses, "AttributeError")
                   ELSE Ok([req EXCEPT !.facebook = FacebookAccessor(req)], ses)
              ELSE Ok(req, ses)
         ELSE Ok(req, ses)

FacebookHelperMiddleware(req, ses) ==
    IF ~req.hasUser
    THEN Raise(req, ses, "AttributeError")
    ELSE IF is_authenticated(req.user)
         THEN IF ses.backend = FacebookModelBackend
              THEN Ok([req EXCEPT !.facebook = FacebookAccessor(req)], ses)
              ELSE Ok(req, ses)
         ELSE Ok(req, ses)

\* Variant: the logout step runs before the login step.
FacebookMiddleware_LogOutFirst(req, ses, first) ==
    LET a == FacebookLogOutMiddleware(req, ses)
    IN  IF a.err # "none" THEN a
        ELSE LET b == FacebookLoginMiddleware(a.request, a.session, first)
             IN  IF b.err # "none" THEN b
                 ELSE FacebookHelperMiddleware(b.request, b.session)

\* Variant: the logout step is left out.
FacebookMiddleware_NoLogOut(req, ses, first) ==
    LET a == FacebookLoginMiddleware(req, ses, first)
    IN  IF a.err # "none" THEN a
        ELSE FacebookHelperMiddleware(a.request, a.session)

FacebookMiddleware(req, ses, first) ==
    LET a == FacebookLoginMiddleware(req, ses, first)
    IN  IF a.err # "none" THEN a
        ELSE LET b == FacebookLogOutMiddleware(a.request, a.session)
             IN  IF b.err # "none" THEN b
                 ELSE FacebookHelperMiddleware(b.request, b.session)

FacebookDebugCanvasMiddleware(req, ses) ==
    Ok([req EXCEPT !.POST = FACEBOOK_DEBUG_SIGNEDREQ], ses)

FacebookDebugCookieMiddleware(req, ses) ==
    LET cookie_name == "fbs_" \o FACEBOOK_APP_ID
    IN  Ok([req EXCEPT !.COOKIES[cookie_name] = FACEBOOK_DEBUG_COOKIE], ses)

FacebookDebugTokenMiddleware(req, ses) ==
    IF ~req.hasUser
    THEN Raise(req, ses, "AttributeError")
    ELSE Ok([req EXCEPT !.facebook = FacebookAccessor(req)], ses)

\* ---------------------------------------------------------------- machine
\* A request as the framework hands it to the first handler: its user is the
\* session's user when the authentication middleware has run.
IncomingRequest(ses, hasUser, cookies, post) ==
    [hasUser |-> hasUser,
     user |-> IF hasUser THEN ses.user ELSE NoUserAttr,
     COOKIES |-> cookies,
     POST |-> post,
     facebook |-> NoAccessor]

Snapshot(req, ses) == [request |-> req, session |-> ses]

Init ==
    /\ session \in {s \in Sessions : s.backend # FacebookModelBackend}
    /\ \E hasUser \in BOOLEAN, cookies \in CookieJars,
          post \in Payloads :
          request = IncomingRequest(session, hasUser, cookies, post)
    /\ err = "none"
    /\ op = "new"
    /\ pre = Snapshot(request, session)

\* The next request of the same client arrives.
NewRequest ==
    /\ op # "new"
    /\ \E hasUser \in BOOLEAN, cookies \in CookieJars,
          post \in Payloads :
          request' = IncomingRequest(session, hasUser, cookies, post)
    /\ session' = session
    /\ err' = "none"
    /\ op' = "new"
    /\ pre' = Snapshot(request', session')

\* A handler's process_request runs on the current request.
Handle(name, res) ==
    /\ err = "none"
    /\ pre' = Snapshot(request, session)
    /\ request' = res.request
    /\ session' = res.session
    /\ err' = res.err
    /\ op' = name

Login ==
    \E first \in {"cookie", "post"} :
        Handle("FacebookLoginMiddleware",
               FacebookLoginMiddleware(request, session, first))

LogOut ==
    Handle("FacebookLogOutMiddleware",
           FacebookLogOutMiddleware(request, session))

Helper ==
    Handle("FacebookHelperMiddleware",
           FacebookHelperMiddleware(request, session))

Composite ==
    \E first \in {"cookie", "post"} :
        Handle("FacebookMiddleware",
               FacebookMiddleware(request, session, first))

DebugCanvas ==
    Handle("FacebookDebugCanvasMiddleware",
           FacebookDebugCanvasMiddleware(request, session))

DebugCookie ==
    Handle("FacebookDebugCookieMiddleware",
           FacebookDebugCookieMiddleware(request, session))

DebugToken ==
    Handle("FacebookDebugTokenMiddleware",
           FacebookDebugTokenMiddleware(request, session))

Next ==
    \/ NewRequest
    \/ Login
    \/ LogOut
    \/ Helper
    \/ Composite
    \/ DebugCanvas
    \/ DebugCookie
    \/ DebugToken

Spec == Init /\ [][Next]_vars

TypeOK ==
    /\ session \in Sessions
    /\ err \in {"none", "ImproperlyConfigured", "AttributeError"}
    /\ request.POST \in Payloads

\* ---------------------------------------------------------------- vocabulary
\* What the claims below talk about: the handler that ran last, and the
\* request and session it found.
HasUser == pre.request.hasUser
WasAnonymous == HasUser /\ is_anonymous(pre.request.user)
WasAuthenticated == HasUser /\ is_authenticated(pre.request.user)
WasExternallyBacked ==
    WasAuthenticated /\ pre.session.backend = FacebookModelBackend
WasOtherBacked ==
    WasAuthenticated /\ pre.session.backend # FacebookModelBackend
IsExternallyBacked ==
    is_authenticated(request.user) /\ session.backend = FacebookModelBackend

PreCookie == pre.request.COOKIES[SignedCookieName]
CookieAbsent == PreCookie = NoPayload
CookieValid == PreCookie.sig = "good"
PostValid == pre.request.POST.sig = "good"
\* The user ids of the valid signed payloads the request carried.
AssertedIds ==
    {p.user_id : p \in {q \in {PreCookie, pre.request.POST} : q.sig = "good"}}
\* The user id the cookie names, None when it names none.
CookieUid == IF CookieValid THEN PreCookie.user_id ELSE None

Unchanged == request = pre.request /\ session = pre.session
SessionCleared == session = EmptySession /\ request.user = AnonymousUser
\* The request differs from what the handler found in its accessor at most.
OnlyAccessorChanged ==
    /\ session = pre.session
    /\ request = [pre.request EXCEPT !.facebook = request.facebook]

CoreHandlers ==
    {"FacebookLoginMiddleware", "FacebookLogOutMiddleware",
     "FacebookHelperMiddleware", "FacebookMiddleware"}
DebugHandlers ==
    {"FacebookDebugCanvasMiddleware", "FacebookDebugCookieMiddleware",
     "FacebookDebugTokenMiddleware"}

\* ---------------------------------------------------------------- claims
\* C1 (as stated): after the composite handler has run on a request whose
\* user was anonymous and which carried a valid signed payload, in the POST
\* field or in the cookie, the session's recorded backend is the
\* external-identity backend and the request has an accessor attached.
C1_LoginSurvivesComposite ==
    (op = "FacebookMiddleware" /\ WasAnonymous /\ (PostValid \/ CookieValid))
        => (session.backend = FacebookModelBackend /\ request.facebook.set)

\* C2 (as stated): on a request without a user field every handler raises
\* the configuration error.
C2_EveryHandlerRaisesConfigError ==
    (op \in CoreHandlers \cup DebugHandlers /\ ~HasUser)
        => err = "ImproperlyConfigured"

\* C2 (amended): on a request without a user field the login handler, the
\* logout handler and the composite handler raise the configuration error;
\* the annotator and the debug token handler fail with an attribute error;
\* the debug canvas and debug cookie handlers raise nothing. A handler that
\* raises leaves request and session as they were.
C2_ErrorsWithoutUser ==
    (op \in CoreHandlers \cup DebugHandlers /\ ~HasUser) =>
        /\ op \in {"FacebookLoginMiddleware", "FacebookLogOutMiddleware",
                   "FacebookMiddleware"} => err = "ImproperlyConfigured"
        /\ op \in {"FacebookHelperMiddleware",
                   "FacebookDebugTokenMiddleware"} => err = "AttributeError"
        /\ op \in {"FacebookDebugCanvasMiddleware",
                   "FacebookDebugCookieMiddleware"} => err = "none"
        /\ err # "none" => Unchanged

C2_Witness ==
    /\ op = "FacebookMiddleware"
    /\ ~HasUser
    /\ err = "ImproperlyConfigured"

\* C3: the logout handler, on an authenticated and externally backed
\* session, terminates the session when the user id of the request's cookie
\* differs from the session user's username (an absent cookie differs), and
\* leaves request and session intact when the two are equal.
C3_LogOutOnMismatch ==
    (op = "FacebookLogOutMiddleware" /\ WasExternallyBacked) =>
        /\ err = "none"
        /\ CookieAbsent => SessionCleared
        /\ CookieUid # pre.request.user.username => SessionCleared
        /\ CookieUid = pre.request.user.username => Unchanged

C3_Witness ==
    /\ op = "FacebookLogOutMiddleware"
    /\ WasExternallyBacked
    /\ CookieAbsent
    /\ SessionCleared

\* C4: the login handler, on a request whose user is anonymous, establishes
\* a session of the external-identity backend for the identity a valid
\* assertion names when one can be extracted; when authentication returns
\* no user, request and session stay as they were (anonymous).
C4_LoginEstablishesSession ==
    (op = "FacebookLoginMiddleware" /\ WasAnonymous) =>
        /\ err = "none"
        /\ AssertedIds # {} =>
            /\ session.backend = FacebookModelBackend
            /\ is_authenticated(session.user)
            /\ session.user.username \in AssertedIds
            /\ request.user = session.user
        /\ AssertedIds = {} => (Unchanged /\ is_anonymous(request.user))

C4_Witness ==
    /\ op = "FacebookLoginMiddleware"
    /\ WasAnonymous
    /\ ~CookieValid
    /\ PostValid
    /\ session.backend = FacebookModelBackend

\* C5: the annotator, on a request with a user field, attaches an accessor
\* (carrying the user's username) exactly when the session is authenticated
\* and externally backed, touching nothing else; in every other case request
\* and session are left exactly as they were.
C5_AnnotatorAttachesIffBacked ==
    (op = "FacebookHelperMiddleware" /\ HasUser) =>
        /\ err = "none"
        /\ WasExternallyBacked =>
            /\ OnlyAccessorChanged
            /\ request.facebook.set
            /\ request.facebook.uid = pre.request.user.username
        /\ ~WasExternallyBacked => Unchanged
        /\ ~pre.request.facebook.set =>
            (request.facebook.set <=> WasExternallyBacked)

C5_Witness ==
    /\ op = "FacebookHelperMiddleware"
    /\ WasExternallyBacked
    /\ ~pre.request.facebook.set
    /\ request.facebook.set

C7_DebugHandlersOverwrite ==
    /\ op = "FacebookDebugCanvasMiddleware" =>
        request.POST = FACEBOOK_DEBUG_SIGNEDREQ
    /\ op = "FacebookDebugCookieMiddleware" =>
        request.COOKIES[DebugCookieName] = FACEBOOK_DEBUG_COOKIE
    /\ (op = "FacebookDebugTokenMiddleware" /\ HasUser) =>
        /\ request.facebook.set
        /\ request.facebook.uid = FACEBOOK_DEBUG_UID
        /\ request.facebook.access_token = FACEBOOK_DEBUG_TOKEN

\* The conditions C8 calls failures, as the handler found them.
NoAssertion == AssertedIds = {}
NoCredential == get_access_token(pre.request) = None

C9_OtherBackendsUntouched ==
    (op = "FacebookMiddleware" /\ WasOtherBacked) =>
        /\ err = "none"
        /\ session = pre.session
        /\ request.user = pre.request.user
        /\ request.facebook = pre.request.facebook
        /\ Unchanged

C9_Witness ==
    /\ op = "FacebookMiddleware"
    /\ WasOtherBacked
    /\ CookieValid
    /\ PostValid
    /\ PreCookie.user_id # pre.request.user.username
    /\ pre.request.POST.user_id = pre.request.user.username
    /\ session.backend = ModelBackend
    /\ ~request.facebook.set

====
